---- MODULE Spec2Model ----
(***************************************************************************)
(* Model of the multi-server MCP tool client (src/mcp_client.py), the      *)
(* streaming backend (src/backend_api.py) and the CLI agent loop           *)
(* (src/chat_cli.py).                                                      *)
(*                                                                         *)
(* Strings that the code takes apart (fully-qualified tool names) are      *)
(* sequences of one-character strings; argument mappings are sequences of  *)
(* <<key, value>> pairs in insertion order, as a Python dict keeps them.   *)
(***************************************************************************)
EXTENDS Integers, Sequences, FiniteSets, TLC

VARIABLES
    call,       \* one invocation of MultiMCPClient.call_tool: inputs and what came back
    pool,       \* one MultiMCPClient scope: _stack, _clients, the connections, the caller's view
    SESSIONS,   \* backend_api.SESSIONS: the ids the registry holds
    objects,    \* the Session objects ever constructed, by id: queue, chat, tool_meta
    workers,    \* the _worker task of each accepted message, by message number
    streams,    \* the _generator of each stream_events request, by observer number
    http,       \* the response the last HTTP handler returned
    cli,        \* chat_cli.handle_function_calls: its locals and what it dispatched
    gc          \* _session_gc_loop: the time (datetime.utcnow) and when it last swept

vars == <<call, pool, SESSIONS, objects, workers, streams, http, cli, gc>>

backend_vars == <<SESSIONS, objects, workers, streams, http, gc>>

\* Python's None.
None == "None"

----------------------------------------------------------------------------
(* Bounds *)

\* Longest fully-qualified name handed to call_tool.
MaxFqnLen == 4

\* Most servers in one configured server list.
MaxServers == 3

----------------------------------------------------------------------------
(* Strings *)

\* The characters names are written in.
Chars == {"m", "x", "."}

RECURSIVE SeqsUpTo(_, _)
SeqsUpTo(S, n) ==
    IF n = 0 THEN {<<>>}
    ELSE LET shorter == SeqsUpTo(S, n - 1)
         IN  shorter \cup {Append(s, c) : s \in {t \in shorter : Len(t) = n - 1}, c \in S}

\* "." in fqn
HasDot(s) == \E i \in 1..Len(s) : s[i] = "."

\* index of the first "." (str.split(".", 1) cuts there)
FirstDot(s) == CHOOSE i \in 1..Len(s) : s[i] = "." /\ \A j \in 1..(i - 1) : s[j] # "."

\* f"{server_name}.{t.name}"
Fqn(server, tool) == server \o <<".">> \o tool

----------------------------------------------------------------------------
(* MultiMCPClient._split_fqn *)

Raise(kind) == [raised |-> kind, server |-> <<>>, tool |-> <<>>]

\* A slip _split_fqn could make: no check of the two parts.
split_fqn_unchecked(fqn) ==
    IF ~HasDot(fqn) THEN Raise("ValueError")
    ELSE [raised |-> "none",
          server |-> SubSeq(fqn, 1, FirstDot(fqn) - 1),
          tool   |-> SubSeq(fqn, FirstDot(fqn) + 1, Len(fqn))]

split_fqn(fqn) ==
    IF ~HasDot(fqn) THEN Raise("ValueError")
    ELSE LET server == SubSeq(fqn, 1, FirstDot(fqn) - 1)
             rest   == SubSeq(fqn, FirstDot(fqn) + 1, Len(fqn))
         IN  IF server = <<>> \/ rest = <<>> THEN Raise("ValueError")
             ELSE [raised |-> "none", server |-> server, tool |-> rest]

----------------------------------------------------------------------------
(* The provider client behind one call: fastmcp Client.call_tool as
   MultiMCPClient.call_tool uses it.  What the provider does is the
   environment's choice. *)

\* What a provider can do with one invocation:
\*   ok         the tool ran; data is its hydrated value (None when it has none)
\*   tool_error the provider reports a tool failure (server.py divide with b = 0)
\*   transport  the request itself fails (timeout, connection lost)
Outcomes ==
    { [kind |-> "ok",         data |-> "3.0", text |-> "3.0"],
      [kind |-> "ok",         data |-> None, text |-> ""],
      [kind |-> "tool_error", data |-> None, text |-> "Division by zero is not allowed."],
      [kind |-> "tool_error", data |-> None, text |-> ""],
      [kind |-> "transport",  data |-> None, text |-> ""] }

NoResult == [data |-> None, structured_content |-> None, is_error |-> FALSE, content_text |-> "unset"]

\* client.call_tool(tool_name, arguments, timeout=, raise_on_error=)
\* returns [raised, message, data, structured_content, is_error, content]
client_call_tool(outcome, raise_on_error) ==
    CASE outcome.kind = "ok" ->
            [raised |-> "none", message |-> "", data |-> outcome.data,
             structured_content |-> IF outcome.data = None THEN None ELSE "sc",
             is_error |-> FALSE, content |-> <<outcome.text>>]
      [] outcome.kind = "tool_error" ->
            IF raise_on_error
            THEN [raised |-> "ToolError", message |-> outcome.text, data |-> None,
                  structured_content |-> None, is_error |-> TRUE, content |-> <<>>]
            ELSE [raised |-> "none", message |-> "", data |-> None,
                  structured_content |-> None, is_error |-> TRUE,
                  content |-> <<outcome.text>>]
      [] OTHER ->
            [raised |-> "TransportError", message |-> "timed out", data |-> None,
             structured_content |-> None, is_error |-> FALSE, content |-> <<>>]

\* for c in content: if c.text: content_text = c.text; break
RECURSIVE first_text(_)
first_text(content) ==
    IF content = <<>> THEN None
    ELSE IF Head(content) # "" THEN Head(content)
    ELSE first_text(Tail(content))

----------------------------------------------------------------------------
(* MultiMCPClient.call_tool *)

\* What call_tool hands its caller: an exception (raised # "none") or a
\* result, and the network calls it made on provider clients.
Returned(result, net) == [raised |-> "none", result |-> result, net |-> net]
Raised(kind, net)     == [raised |-> kind, result |-> NoResult, net |-> net]

\* A slip call_tool could make: the ToolError handler left out.
call_tool_uncaught(clients, fqn, raise_on_error, outcome) ==
    LET sp == split_fqn(fqn)
    IN  IF sp.raised # "none" THEN Raised(sp.raised, <<>>)
        ELSE IF sp.server \notin clients THEN Raised("ValueError", <<>>)
        ELSE LET r   == client_call_tool(outcome, raise_on_error)
                 net == << <<sp.server, sp.tool>> >>
             IN  IF r.raised # "none" THEN Raised(r.raised, net)
                 ELSE Returned([data |-> r.data,
                                structured_content |-> r.structured_content,
                                is_error |-> r.is_error,
                                content_text |-> first_text(r.content)], net)

call_tool(clients, fqn, raise_on_error, outcome) ==
    LET sp == split_fqn(fqn)
    IN  IF sp.raised # "none" THEN Raised(sp.raised, <<>>)
        ELSE IF sp.server \notin clients
             THEN Raised("ValueError", <<>>)
        ELSE LET r   == client_call_tool(outcome, raise_on_error)
                 net == << <<sp.server, sp.tool>> >>
             IN  IF r.raised = "ToolError"
                 THEN \* except ToolError as e: normalized into a result
                      Returned([data |-> None, structured_content |-> None,
                                is_error |-> TRUE, content_text |-> r.message], net)
                 ELSE IF r.raised # "none"
                 THEN Raised(r.raised, net)
                 ELSE Returned([data |-> r.data,
                                structured_content |-> r.structured_content,
                                is_error |-> r.is_error,
                                content_text |-> first_text(r.content)], net)

----------------------------------------------------------------------------
(* MultiMCPClient.__aenter__ / __aexit__ over contextlib.AsyncExitStack.

   A connection is named by the position of its server in the configured
   list.  pool is
     pc        "new" constructed, "entering" inside __aenter__, "body" inside
               the with-block, "exiting" inside __aexit__, "closed" left
               without an error, "failed" left with an error
     servers   self._servers
     stack     the exit callbacks of self._stack, oldest first
     has_stack self._stack is not None
     clients   self._clients, as <<name, connection>> pairs
     open      connections that are established and not yet disconnected
     released  connections whose Client.__aexit__ was called, in call order
     entered   __aenter__ returned
     body_exc  what the with-block raised ("none" when it did not)
     pending   the exception AsyncExitStack holds while unwinding
     caller    what the code around the with-statement observes *)

\* Server names a configuration can hold.
ServerNames == { <<"m">>, <<"x">> }

ServerLists == {s \in SeqsUpTo(ServerNames, MaxServers) : Len(s) >= 1}

NewPool(servers) ==
    [pc |-> "new", servers |-> servers, stack |-> <<>>, has_stack |-> FALSE,
     clients |-> {}, open |-> {}, released |-> <<>>, entered |-> FALSE,
     body_exc |-> "none", pending |-> "none", caller |-> "running"]

\* self._clients[s.name] = client
dict_set(d, key, value) == {e \in d : e[1] # key} \cup {<<key, value>>}

\* set(self._clients)
dict_keys(d) == {e[1] : e \in d}

\* await self._stack.enter_async_context(client) succeeded for the next
\* server; after the last one __aenter__ returns self.
aenter_connected(p) ==
    LET k == Len(p.stack) + 1
    IN  [p EXCEPT !.has_stack = TRUE,
                  !.stack = Append(p.stack, k),
                  !.open = p.open \cup {k},
                  !.clients = dict_set(p.clients, p.servers[k], k),
                  !.entered = (k = Len(p.servers)),
                  !.pc = IF k = Len(p.servers) THEN "body" ELSE "entering"]

\* enter_async_context raised: the exception leaves __aenter__, and a
\* with-statement whose __aenter__ raised never calls __aexit__.
aenter_failed(p) ==
    [p EXCEPT !.has_stack = TRUE, !.pc = "failed", !.caller = "ConnectError"]

\* The callback AsyncExitStack runs next: self._exit_callbacks.pop()
stack_top(stack) == stack[Len(stack)]

\* The callbacks left once the one for connection k has run, whether it
\* raised or not: the unwinding goes on.
stack_rest_abandon(stack, k, ok) ==
    IF ok THEN SelectSeq(stack, LAMBDA c : c # k) ELSE <<>>

stack_rest(stack, k, ok) == SelectSeq(stack, LAMBDA c : c # k)

\* One callback of self._stack.aclose(): Client.__aexit__ of the top
\* connection.  ok: it returned; closed: the connection is down afterwards.
aclose_step(p, ok, closed) ==
    LET k == stack_top(p.stack)
    IN  [p EXCEPT !.stack = stack_rest(p.stack, k, ok),
                  !.released = Append(p.released, k),
                  !.open = IF closed THEN p.open \ {k} ELSE p.open,
                  !.pending = IF ok THEN p.pending ELSE "ReleaseError"]

\* What __aexit__ leaves its caller with once the stack is unwound: aclose
\* raises the pending exception, and then the two statements after it do
\* not run; otherwise __aexit__ returns None and the with-block's own
\* exception, if any, goes on.
aexit_finish(p) ==
    IF p.pending # "none"
    THEN [p EXCEPT !.pc = "failed", !.caller = p.pending]
    ELSE [p EXCEPT !.clients = {}, !.has_stack = FALSE,
                   !.pc = IF p.body_exc # "none" THEN "failed" ELSE "closed",
                   !.caller = IF p.body_exc # "none" THEN p.body_exc ELSE "ok"]

----------------------------------------------------------------------------
(* chat_cli.ProposedCall, extract_function_calls and the deduplication of
   post_message._worker *)

\* Rank of an argument key in the order json.dumps(sort_keys=True) writes them.
KeyRank(k) == CASE k = "a" -> 1 [] k = "b" -> 2 [] OTHER -> 3

\* json.dumps(args, sort_keys=True): the pairs of the mapping, by key.
RECURSIVE json_dumps_sorted(_)
json_dumps_sorted(args) ==
    IF args = <<>> THEN <<>>
    ELSE LET least == CHOOSE i \in 1..Len(args) :
                         \A j \in 1..Len(args) : KeyRank(args[i][1]) <= KeyRank(args[j][1])
             others == [j \in 1..(Len(args) - 1) |->
                          IF j < least THEN args[j] ELSE args[j + 1]]
         IN  <<args[least]>> \o json_dumps_sorted(others)

\* key = (call.name, json.dumps(call.args, sort_keys=True))
call_key(c) == <<c.name, json_dumps_sorted(c.args)>>

\* unique = []; seen = set(); for call in proposed: ...
RECURSIVE dedup_from(_, _)
dedup_from(calls, seen) ==
    IF calls = <<>> THEN <<>>
    ELSE IF call_key(Head(calls)) \in seen
         THEN dedup_from(Tail(calls), seen)
         ELSE <<Head(calls)>> \o dedup_from(Tail(calls), seen \cup {call_key(Head(calls))})

dedup(calls) == dedup_from(calls, {})

\* extract_function_calls: the candidate's function_calls, then every
\* function_call found in its content parts.
extract_function_calls(response) ==
    IF response.kind # "response" THEN <<>>
    ELSE response.function_calls \o response.parts

----------------------------------------------------------------------------
(* What the model and the configuration can be *)

\* servers.yaml as the backend and the CLI load it.
Servers == << <<"m">>, <<"x">> >>

\* Tools of server.py: math.add and math.divide, and their fqns on server m.
ToolAdd == <<"m", ".", "a">>
ToolDiv == <<"m", ".", "d">>

\* Argument mappings: {a: 1, b: 2}, the same mapping listed the other way
\* round, and {a: 1, b: 0}.
Args12 == << <<"a", 1>>, <<"b", 2>> >>
Args21 == << <<"b", 2>>, <<"a", 1>> >>
Args10 == << <<"a", 1>>, <<"b", 0>> >>

ProposedCall(name, args) == [name |-> name, args |-> args]

CallAdd    == ProposedCall(Fqn(<<"m">>, ToolAdd), Args12)
CallAddRev == ProposedCall(Fqn(<<"m">>, ToolAdd), Args21)
CallDiv    == ProposedCall(Fqn(<<"x">>, ToolDiv), Args10)
\* a name the model made up: no server "q" is configured
CallStray  == ProposedCall(Fqn(<<"q">>, ToolAdd), Args12)

Response(function_calls, parts, text) ==
    [kind |-> "response", function_calls |-> function_calls, parts |-> parts, text |-> text]

\* chat.send_message raised.
ModelError == [kind |-> "error", function_calls |-> <<>>, parts |-> <<>>, text |-> ""]

\* Responses without a call: the final answer.
FinalResponses == { Response(<<>>, <<>>, "answer") }

\* Responses that propose calls, in the direct list, in the parts or in both.
CallResponses ==
    { Response(<<CallAdd>>, <<>>, ""),
      Response(<<>>, <<CallAdd>>, ""),
      Response(<<CallAdd>>, <<CallAdd>>, ""),
      Response(<<CallAdd, CallAddRev>>, <<>>, ""),
      Response(<<CallDiv, CallAdd>>, <<>>, ""),
      Response(<<CallAdd, CallDiv, CallAddRev>>, <<>>, ""),
      Response(<<CallStray>>, <<>>, "") }

Replies == FinalResponses \cup CallResponses \cup {ModelError}

----------------------------------------------------------------------------
(* backend_api: Session, _event, the handlers and post_message._worker *)

SessionIds == {"s1"}

\* _event(type_, payload); msg is the message whose handling produced it
\* (0 for none), id the callId, fqn the toolFqn of a tool_call event, tool
\* and server its toolName and serverName (<<>> where the payload has none).
Event(type, msg, id, fqn) ==
    [type |-> type, level |-> "", msg |-> msg, id |-> id, fqn |-> fqn,
     tool |-> <<>>, server |-> <<>>]

NoId == <<>>

\* _event("status", {"level": level, ...})
StatusEvent(level, msg) ==
    [type |-> "status", level |-> level, msg |-> msg, id |-> NoId, fqn |-> <<>>,
     tool |-> <<>>, server |-> <<>>]

\* Session.__init__: queue is every event ever put on self.queue, of which
\* those after position head have not been taken off yet; chat is what has
\* been sent to the model through self.chat.
\* model.start_chat(): a conversation with no history.
start_chat == <<>>

NewSession(tool_meta) ==
    [queue |-> <<>>, head |-> 0, chat |-> start_chat, tool_meta |-> tool_meta,
     last_active |-> gc.now]

\* await s.queue.put(...) for each of events
queue_put(s, events) == [s EXCEPT !.queue = s.queue \o events]

\* the events still on s.queue
queue_items(s) == SubSeq(s.queue, s.head + 1, Len(s.queue))

\* s.chat.send_message(content, tools=s.tools)
send_message(s, content) == [s EXCEPT !.chat = Append(s.chat, content)]

\* ToolRecord(server=server_name, name=t.name, fqn=f"{server_name}.{t.name}", ...)
ToolRecord(server, name) == [server |-> server, name |-> name, fqn |-> Fqn(server, name)]

\* str.title() over the letters of the model: a letter that starts the string
\* or follows a character that is not a letter is written in upper case.
Upper(c) == CASE c = "m" -> "M" [] c = "x" -> "X" [] c = "a" -> "A" [] c = "d" -> "D"
              [] OTHER -> c

IsLetter(c) == c \notin {".", "_", " "}

title(s) ==
    [i \in 1..Len(s) |-> IF i = 1 \/ ~IsLetter(s[i - 1]) THEN Upper(s[i]) ELSE s[i]]

\* s.replace("_", " ").title()
label(s) == title([i \in 1..Len(s) |-> IF s[i] = "_" THEN " " ELSE s[i]])

\* name.split(".")[-1]
last_segment(name) ==
    LET dots == {i \in 1..Len(name) : name[i] = "."}
        from == IF dots = {} THEN 1
                ELSE 1 + CHOOSE i \in dots : \A j \in dots : j <= i
    IN  SubSeq(name, from, Len(name))

\* tool_meta[record.fqn] = {"tool_name": ..., "server_name": ...} for record in
\* catalog: a later record with the same fqn overwrites an earlier one.
build_tool_meta(catalog) ==
    [f \in {catalog[i].fqn : i \in 1..Len(catalog)} |->
        LET i == CHOOSE i \in 1..Len(catalog) :
                    /\ catalog[i].fqn = f
                    /\ \A j \in 1..Len(catalog) : catalog[j].fqn = f => j <= i
        IN  [tool_name |-> label(last_segment(catalog[i].name)),
             server_name |-> label(catalog[i].server)]]

\* The toolName and serverName of a tool_call event:
\* meta = s.tool_meta.get(call.name, {}); meta.get("tool_name",
\* call.name.split(".")[-1]); meta.get("server_name")
ToolEvent(type, m, id, name, tool_meta) ==
    [Event(type, m, id, name) EXCEPT
        !.tool = IF name \in DOMAIN tool_meta THEN tool_meta[name].tool_name
                 ELSE last_segment(name),
        !.server = IF name \in DOMAIN tool_meta THEN tool_meta[name].server_name
                   ELSE <<>>]

\* The catalog the providers of Servers give create_session.
Catalog == << ToolRecord(<<"m">>, ToolAdd), ToolRecord(<<"x">>, ToolDiv) >>

\* The payload fed back for one result: the data, or the error object.
tool_payload_unchecked(result) ==
    [error |-> FALSE, message |-> "", structured_content |-> None, data |-> result.data]

tool_payload(result) ==
    IF result.is_error \/ result.data = None
    THEN [error |-> TRUE,
          message |-> IF result.content_text \in {None, ""} THEN "Tool error"
                      ELSE result.content_text,
          structured_content |-> result.structured_content,
          data |-> None]
    ELSE [error |-> FALSE, message |-> "", structured_content |-> None, data |-> result.data]

\* parts = [Part.from_function_response(name=call.name, response={"result": payload}) ...]
function_response_parts(results) ==
    [i \in 1..Len(results) |->
        [name |-> results[i].call.name, payload |-> tool_payload(results[i].result)]]

\* The _worker task of a message, as asyncio.create_task leaves it: not
\* started.  round counts the tool rounds begun, sends the model calls
\* made; dispatched lists the calls handed to call_tool with what the
\* provider did, planned counts the deduplicated calls of all rounds, exc is
\* the exception that ended the task.
NewWorker(sid, text) ==
    [sid |-> sid, text |-> text, pc |-> "created", proposed |-> <<>>, i |-> 0,
     results |-> <<>>, round |-> 0, sends |-> 0, pool |-> NewPool(<<>>),
     dispatched |-> <<>>, planned |-> 0, exc |-> "none"]

\* The events post_message itself puts on the queue before it returns.
accept_events_none(m, text) == <<>>

accept_events(m, text) == << Event("message.user", m, NoId, <<>>) >>

\* except Exception as e: one status event of level error, and the task ends.
worker_fail(w, exc) == [w EXCEPT !.pc = "done", !.exc = exc]

StatusError(m) == StatusEvent("error", m)

\* The callId of call i of the current round (uuid4 in the code: fresh).
CallId(w, i) == <<w.round, i>>

\* for call in proposed, from the await of call i - 1 up to the await of
\* call i: the started event, then call_tool as far as its own await.  A
\* name call_tool refuses raises there and then, inside the with-block.
\* Returns the worker and the events put on the queue.
worker_begin_call_late_event(m, w, i) ==
    LET c  == w.proposed[i]
        sp == split_fqn(c.name)
    IN  IF sp.raised # "none" \/ sp.server \notin dict_keys(w.pool.clients)
        THEN [w |-> [w EXCEPT !.i = i, !.pc = "exiting",
                              !.pool = [w.pool EXCEPT !.pc = "exiting",
                                                      !.body_exc = "ValueError"]],
              ev |-> << >>]
        ELSE [w |-> [w EXCEPT !.i = i, !.pc = "calling"], ev |-> << >>]

worker_begin_call(m, w, i) ==
    LET c  == w.proposed[i]
        sp == split_fqn(c.name)
        started == ToolEvent("tool_call.started", m, CallId(w, i), c.name,
                             objects[w.sid].tool_meta)
    IN  IF sp.raised # "none" \/ sp.server \notin dict_keys(w.pool.clients)
        THEN [w |-> [w EXCEPT !.i = i, !.pc = "exiting",
                              !.pool = [w.pool EXCEPT !.pc = "exiting",
                                                      !.body_exc = "ValueError"]],
              ev |-> <<started>>]
        ELSE [w |-> [w EXCEPT !.i = i, !.pc = "calling"], ev |-> <<started>>]

\* From a model response to the next await: extract, deduplicate, and either
\* the final event or the start of a tool round (`async with MultiMCPClient`).
worker_handle_response_silent(m, w, response) ==
    IF response.kind = "error"
    THEN [w |-> worker_fail(w, "ModelError"), ev |-> <<StatusError(m)>>]
    ELSE LET proposed == dedup(extract_function_calls(response))
         IN  IF proposed = <<>>
             THEN [w |-> [w EXCEPT !.pc = "done", !.proposed = <<>>], ev |-> <<>>]
             ELSE [w |-> [w EXCEPT !.pc = "connecting", !.proposed = proposed,
                                   !.i = 0, !.results = <<>>,
                                   !.round = w.round + 1,
                                   !.planned = w.planned + Len(proposed),
                                   !.pool = NewPool(Servers)],
                   ev |-> <<>>]

worker_handle_response_answers(m, w, response) ==
    IF response.kind = "error"
    THEN [w |-> worker_fail(w, "ModelError"),
          ev |-> << StatusError(m), Event("message.model.final", m, NoId, <<>>) >>]
    ELSE LET proposed == dedup(extract_function_calls(response))
         IN  IF proposed = <<>>
             THEN [w |-> [w EXCEPT !.pc = "done", !.proposed = <<>>],
                   ev |-> << Event("message.model.final", m, NoId, <<>>) >>]
             ELSE [w |-> [w EXCEPT !.pc = "connecting", !.proposed = proposed,
                                   !.i = 0, !.results = <<>>,
                                   !.round = w.round + 1,
                                   !.planned = w.planned + Len(proposed),
                                   !.pool = NewPool(Servers)],
                   ev |-> <<>>]

worker_handle_response(m, w, response) ==
    IF response.kind = "error"
    THEN [w |-> worker_fail(w, "ModelError"), ev |-> <<StatusError(m)>>]
    ELSE LET proposed == dedup(extract_function_calls(response))
         IN  IF proposed = <<>>
             THEN [w |-> [w EXCEPT !.pc = "done", !.proposed = <<>>],
                   ev |-> << Event("message.model.final", m, NoId, <<>>) >>]
             ELSE [w |-> [w EXCEPT !.pc = "connecting", !.proposed = proposed,
                                   !.i = 0, !.results = <<>>,
                                   !.round = w.round + 1,
                                   !.planned = w.planned + Len(proposed),
                                   !.pool = NewPool(Servers)],
                   ev |-> <<>>]

\* The event for a call that came back.
result_event(m, w, c, result) ==
    ToolEvent(IF result.is_error THEN "tool_call.error" ELSE "tool_call.result",
              m, CallId(w, w.i), c.name, objects[w.sid].tool_meta)

----------------------------------------------------------------------------
(* Specification SpecCall: call_tool applied to every bounded input *)

IdleCall == [pc |-> "idle", clients |-> {}, fqn |-> <<>>, raise_on_error |-> FALSE,
             outcome |-> [kind |-> "ok", data |-> None, text |-> ""],
             ret |-> Raised("none", <<>>)]

IdlePool == NewPool(<<>>)

IdleBackend ==
    /\ SESSIONS = {}
    /\ objects = <<>>
    /\ workers = <<>>
    /\ streams = <<>>
    /\ http = [op |-> "none", status |-> 0, msg |-> 0]
    /\ gc = [now |-> 0, swept |-> 0]

IdleCli == cli = [pc |-> "idle"]

InitCall ==
    /\ call \in [pc : {"input"}, clients : SUBSET ServerNames,
                 fqn : SeqsUpTo(Chars, MaxFqnLen), raise_on_error : BOOLEAN,
                 outcome : Outcomes, ret : {Raised("none", <<>>)}]
    /\ pool = IdlePool
    /\ IdleBackend
    /\ IdleCli

CallTool ==
    /\ call.pc = "input"
    /\ call' = [call EXCEPT !.pc = "returned",
                            !.ret = call_tool(call.clients, call.fqn,
                                              call.raise_on_error, call.outcome)]
    /\ UNCHANGED <<pool, backend_vars, cli>>

NextCall == CallTool

SpecCall == InitCall /\ [][NextCall]_vars

----------------------------------------------------------------------------
(* Specification SpecScope: one `async with MultiMCPClient(servers)` *)

InitScope ==
    /\ pool \in {NewPool(s) : s \in ServerLists}
    /\ call = IdleCall
    /\ IdleBackend
    /\ IdleCli

\* __aenter__: the next server connects.
AenterConnect ==
    /\ pool.pc \in {"new", "entering"}
    /\ pool' = aenter_connected(pool)
    /\ UNCHANGED <<call, backend_vars, cli>>

\* __aenter__: the next server cannot be reached.
AenterFail ==
    /\ pool.pc \in {"new", "entering"}
    /\ pool' = aenter_failed(pool)
    /\ UNCHANGED <<call, backend_vars, cli>>

\* The with-block ends, normally or with an exception of its own.
BodyEnds ==
    /\ pool.pc = "body"
    /\ \E exc \in {"none", "BodyError"} :
          pool' = [pool EXCEPT !.pc = "exiting", !.body_exc = exc]
    /\ UNCHANGED <<call, backend_vars, cli>>

\* __aexit__: aclose() runs one more exit callback.
AexitRelease ==
    /\ pool.pc = "exiting"
    /\ pool.stack # <<>>
    /\ \E ok \in BOOLEAN, closed \in BOOLEAN :
          /\ (ok => closed)
          /\ pool' = aclose_step(pool, ok, closed)
    /\ UNCHANGED <<call, backend_vars, cli>>

\* __aexit__: the stack is unwound.
AexitFinish ==
    /\ pool.pc = "exiting"
    /\ pool.stack = <<>>
    /\ pool' = aexit_finish(pool)
    /\ UNCHANGED <<call, backend_vars, cli>>

NextScope == AenterConnect \/ AenterFail \/ BodyEnds \/ AexitRelease \/ AexitFinish

SpecScope == InitScope /\ [][NextScope]_vars

----------------------------------------------------------------------------
(* Specification Spec: the backend, one session, the agent loop of a message *)

\* Most tool rounds the model asks for in one loop.
MaxRounds == 2

Http(op, status, msg) == [op |-> op, status |-> status, msg |-> msg]

Init ==
    /\ call = IdleCall
    /\ pool = IdlePool
    /\ IdleBackend
    /\ IdleCli

\* create_session once its with-block is left: caller is what the block left
\* the handler with ("ok" or the exception), catalog what list_tools
\* returned.  The session is registered under a fresh id; an exception
\* leaves the handler before anything is registered.
create_session(sid, caller, catalog) ==
    /\ sid \notin DOMAIN objects
    /\ IF caller = "ok"
       THEN /\ objects' = objects @@ (sid :> NewSession(build_tool_meta(catalog)))
            /\ SESSIONS' = SESSIONS \cup {sid}
            /\ http' = Http("create_session", 200, 0)
       ELSE /\ http' = Http("create_session", 500, 0)
            /\ UNCHANGED <<objects, SESSIONS>>
    /\ UNCHANGED <<call, pool, workers, streams, cli, gc>>

\* post_message: 404, 400, or the message.user event, the task and 202.
post_message(sid, text) ==
    /\ IF sid \notin SESSIONS
       THEN /\ http' = Http("post_message", 404, 0)
            /\ UNCHANGED <<objects, workers>>
       ELSE IF text = ""
       THEN /\ http' = Http("post_message", 400, 0)
            /\ UNCHANGED <<objects, workers>>
       ELSE LET m == Len(workers) + 1
            IN  /\ objects' = [objects EXCEPT
                                 ![sid] = queue_put(@, accept_events(m, text))]
                /\ workers' = Append(workers, NewWorker(sid, text))
                /\ http' = Http("post_message", 202, m)
    /\ UNCHANGED <<call, pool, SESSIONS, streams, cli, gc>>

\* The model asks for another tool round only while the bound leaves room.
MayReply(round, reply) == reply \in CallResponses => round < MaxRounds

\* The worker's step: its record and the events it puts on its session's queue.
worker_step(m, w2, ev, content) ==
    LET sid == workers[m].sid
        s   == IF content = <<>> THEN objects[sid]
               ELSE send_message(objects[sid], Head(content))
    IN  /\ workers' = [workers EXCEPT ![m] = w2]
        /\ objects' = [objects EXCEPT ![sid] = queue_put(s, ev)]
        /\ UNCHANGED <<call, pool, SESSIONS, streams, http, cli, gc>>

\* _worker from its start to its first await: the first model call and what
\* follows from the response.
worker_start(m, reply) ==
    /\ workers[m].pc = "created"
    /\ MayReply(workers[m].round, reply)
    /\ LET w == [workers[m] EXCEPT !.sends = 1]
           h == worker_handle_response(m, w, reply)
       IN  worker_step(m, h.w, h.ev, << [msg |-> m, parts |-> <<>>] >>)

\* __aenter__ of the round's MultiMCPClient: the next connection.
worker_connect(m, ok) ==
    /\ workers[m].pc = "connecting"
    /\ LET w == workers[m]
       IN  IF ~ok
           THEN worker_step(m, worker_fail([w EXCEPT !.pool = aenter_failed(w.pool)],
                                            "ConnectError"),
                            <<StatusError(m)>>, <<>>)
           ELSE LET p2 == aenter_connected(w.pool)
                    w2 == [w EXCEPT !.pool = p2]
                IN  IF p2.pc # "body"
                    THEN worker_step(m, w2, <<>>, <<>>)
                    ELSE LET b == worker_begin_call(m, w2, 1)
                         IN  worker_step(m, b.w, b.ev, <<>>)

\* The await of multi.call_tool(...) ends.
worker_result(m, outcome) ==
    /\ workers[m].pc = "calling"
    /\ LET w  == workers[m]
           c  == w.proposed[w.i]
           r  == call_tool(dict_keys(w.pool.clients), c.name, FALSE, outcome)
           w1 == [w EXCEPT !.dispatched =
                     Append(w.dispatched, [id |-> CallId(w, w.i), kind |-> outcome.kind,
                                           outcome |-> outcome])]
       IN  IF r.raised # "none"
           THEN worker_step(m, [w1 EXCEPT !.pc = "exiting",
                                          !.pool = [w.pool EXCEPT !.pc = "exiting",
                                                                  !.body_exc = r.raised]],
                            <<>>, <<>>)
           ELSE LET w2 == [w1 EXCEPT !.results =
                              Append(w.results, [call |-> c, id |-> CallId(w, w.i),
                                                 result |-> r.result])]
                    ev == << result_event(m, w, c, r.result) >>
                IN  IF w.i < Len(w.proposed)
                    THEN LET b == worker_begin_call(m, w2, w.i + 1)
                         IN  worker_step(m, b.w, ev \o b.ev, <<>>)
                    ELSE worker_step(m, [w2 EXCEPT !.pc = "exiting",
                                                   !.pool = [w.pool EXCEPT !.pc = "exiting"]],
                                     ev, <<>>)

\* __aexit__ of the round's MultiMCPClient: one connection released.
worker_release(m, ok, closed) ==
    /\ workers[m].pc = "exiting"
    /\ workers[m].pool.stack # <<>>
    /\ (ok => closed)
    /\ worker_step(m, [workers[m] EXCEPT !.pool = aclose_step(@, ok, closed)], <<>>, <<>>)

\* The with-block is left: an exception ends the task with a status event;
\* otherwise the results go back to the model and the loop goes round.
worker_exit(m, reply) ==
    /\ workers[m].pc = "exiting"
    /\ workers[m].pool.stack = <<>>
    /\ MayReply(workers[m].round, reply)
    /\ LET w  == workers[m]
           p2 == aexit_finish(w.pool)
           w2 == [w EXCEPT !.pool = p2]
       IN  IF p2.caller # "ok"
           THEN worker_step(m, worker_fail(w2, p2.caller), <<StatusError(m)>>, <<>>)
           ELSE LET h == worker_handle_response(m, [w2 EXCEPT !.sends = w.sends + 1], reply)
                IN  worker_step(m, h.w, h.ev,
                       << [msg |-> m, parts |-> function_response_parts(w.results)] >>)

\* Spec follows the loop of one message through everything the model and
\* the providers can do to it.
Next ==
    \/ \E sid \in SessionIds, caller \in {"ok", "ConnectError"} :
          create_session(sid, caller, Catalog)
    \/ \E sid \in SessionIds \cup {"unknown"}, text \in {"hi", ""} :
          workers = <<>> /\ post_message(sid, text)
    \/ \E m \in DOMAIN workers, reply \in Replies : worker_start(m, reply)
    \/ \E m \in DOMAIN workers, ok \in BOOLEAN : worker_connect(m, ok)
    \/ \E m \in DOMAIN workers, outcome \in Outcomes : worker_result(m, outcome)
    \/ \E m \in DOMAIN workers, ok \in BOOLEAN, closed \in BOOLEAN : worker_release(m, ok, closed)
    \/ \E m \in DOMAIN workers, reply \in Replies : worker_exit(m, reply)

Spec == Init /\ [][Next]_vars

----------------------------------------------------------------------------
(* stream_events and its _generator *)

\* Most stream_events requests.
MaxObservers == 2

\* The greeting _generator yields first; position 0: it was never on the queue.
Greeting == [pos |-> 0, event |-> StatusEvent("info", 0)]

Attached(o) == streams[o].pc \in {"hello", "streaming"}

\* item = await s.queue.get(): the oldest event leaves the queue.
queue_get_peek(s) ==
    [item |-> [pos |-> s.head + 1, event |-> s.queue[s.head + 1]], s |-> s]

queue_get(s) ==
    [item |-> [pos |-> s.head + 1, event |-> s.queue[s.head + 1]],
     s    |-> [s EXCEPT !.head = s.head + 1]]

\* stream_events: 404, or a StreamingResponse over a new _generator.  since
\* is where the queue stood then; alone tells that no other generator of the
\* session has been live at the same time as this one.
stream_events(sid) ==
    /\ Len(streams) < MaxObservers
    /\ IF sid \notin SESSIONS
       THEN /\ http' = Http("stream_events", 404, 0)
            /\ UNCHANGED streams
       ELSE LET others == {o \in DOMAIN streams : streams[o].sid = sid /\ Attached(o)}
            IN  /\ streams' = Append([o \in DOMAIN streams |->
                                        IF o \in others
                                        THEN [streams[o] EXCEPT !.alone = FALSE]
                                        ELSE streams[o]],
                                     [sid |-> sid, pc |-> "hello", received |-> <<>>,
                                      since |-> objects[sid].head,
                                      alone |-> others = {}])
                /\ http' = Http("stream_events", 200, 0)
    /\ UNCHANGED <<call, pool, SESSIONS, objects, workers, cli, gc>>

\* _generator: the hello event.
stream_hello(o) ==
    /\ streams[o].pc = "hello"
    /\ streams' = [streams EXCEPT ![o].pc = "streaming",
                                  ![o].received = Append(@, Greeting)]
    /\ UNCHANGED <<call, pool, SESSIONS, objects, workers, http, cli, gc>>

\* _generator: one turn of its loop, from queue.get to the yield.
stream_next_broadcast(o) ==
    /\ streams[o].pc = "streaming"
    /\ queue_items(objects[streams[o].sid]) # <<>>
    /\ LET g == queue_get(objects[streams[o].sid])
       IN  /\ objects' = [objects EXCEPT ![streams[o].sid] = g.s]
           /\ streams' = [p \in DOMAIN streams |->
                            IF streams[p].sid = streams[o].sid /\ streams[p].pc = "streaming"
                            THEN [streams[p] EXCEPT !.received = Append(@, g.item)]
                            ELSE streams[p]]
    /\ UNCHANGED <<call, pool, SESSIONS, workers, http, cli, gc>>

stream_next(o) ==
    /\ streams[o].pc = "streaming"
    /\ queue_items(objects[streams[o].sid]) # <<>>
    /\ LET g == queue_get(objects[streams[o].sid])
       IN  /\ objects' = [objects EXCEPT ![streams[o].sid] = g.s]
           /\ streams' = [streams EXCEPT ![o].received = Append(@, g.item)]
    /\ UNCHANGED <<call, pool, SESSIONS, workers, http, cli, gc>>

\* The client goes away: the generator is closed where it waits.
stream_detach_cancels(o) ==
    /\ Attached(o)
    /\ streams' = [streams EXCEPT ![o].pc = "detached"]
    /\ workers' = [m \in DOMAIN workers |->
                     IF workers[m].sid = streams[o].sid
                     THEN [workers[m] EXCEPT !.pc = "done"]
                     ELSE workers[m]]
    /\ UNCHANGED <<call, pool, SESSIONS, objects, http, cli, gc>>

stream_detach(o) ==
    /\ Attached(o)
    /\ streams' = [streams EXCEPT ![o].pc = "detached"]
    /\ UNCHANGED <<call, pool, SESSIONS, objects, workers, http, cli, gc>>

----------------------------------------------------------------------------
(* Specification SpecStream: the observers of a session while the loop of one
   message runs against a model and providers that do a few things only *)

FewReplies == FinalResponses \cup {Response(<<CallAdd>>, <<>>, ""), ModelError}

FewOutcomes == {o \in Outcomes : o.text # "" \/ o.kind = "transport"}

NextStream ==
    \/ \E sid \in SessionIds, caller \in {"ok", "ConnectError"} :
          create_session(sid, caller, Catalog)
    \/ \E sid \in SessionIds \cup {"unknown"}, text \in {"hi", ""} :
          workers = <<>> /\ post_message(sid, text)
    \/ \E m \in DOMAIN workers, reply \in FewReplies : worker_start(m, reply)
    \/ \E m \in DOMAIN workers, ok \in BOOLEAN : worker_connect(m, ok)
    \/ \E m \in DOMAIN workers, outcome \in FewOutcomes : worker_result(m, outcome)
    \/ \E m \in DOMAIN workers, ok \in BOOLEAN : worker_release(m, ok, TRUE)
    \/ \E m \in DOMAIN workers, reply \in FewReplies : worker_exit(m, reply)
    \/ \E sid \in SessionIds \cup {"unknown"} : stream_events(sid)
    \/ \E o \in DOMAIN streams : stream_hello(o)
    \/ \E o \in DOMAIN streams : stream_next(o)
    \/ \E o \in DOMAIN streams : stream_detach(o)

SpecStream == Init /\ [][NextStream]_vars


----------------------------------------------------------------------------
(* chat_cli.handle_function_calls, called inside chat_loop's connected
   MultiMCPClient.  cli is
     pc         "loop" at the top of `while True`, "gathering" inside
                asyncio.gather, "returned" / "raised" when the function is left
     response   the model response at hand
     round      the rounds begun
     proposed   the calls of this round
     pending    the calls of this round whose call_tool has not come back
     results    what came back, by position
     exc        the first exception a call_tool raised
     dispatched every call handed to multi.call_tool, as [round, call]
     chat       the contents sent to the model *)

\* chat_loop's pool is entered over every configured server.
CliClients == {Servers[k] : k \in DOMAIN Servers}

NewCli(initial_response) ==
    [pc |-> "loop", response |-> initial_response, round |-> 0, proposed |-> <<>>,
     pending |-> {}, results |-> <<>>, exc |-> "none", dispatched |-> <<>>,
     chat |-> <<>>]

\* proposed = extract_function_calls(response): the calls handed to call_tool.
cli_proposed(response) == extract_function_calls(response)

\* tasks = [multi.call_tool(...) for call in proposed]; asyncio.gather(*tasks):
\* every call_tool is started and runs as far as its own await; the ones
\* call_tool refuses have raised by then.
cli_dispatch ==
    /\ cli.pc = "loop"
    /\ LET proposed == cli_proposed(cli.response)
           refused  == {i \in DOMAIN proposed :
                           LET sp == split_fqn(proposed[i].name)
                           IN  sp.raised # "none" \/ sp.server \notin CliClients}
       IN  IF proposed = <<>>
           THEN cli' = [cli EXCEPT !.pc = "returned", !.proposed = <<>>]
           ELSE cli' = [cli EXCEPT
                          !.pc = "gathering",
                          !.round = cli.round + 1,
                          !.proposed = proposed,
                          !.pending = DOMAIN proposed \ refused,
                          !.results = [i \in DOMAIN proposed |-> NoResult],
                          !.exc = IF refused = {} THEN "none" ELSE "ValueError",
                          !.dispatched = cli.dispatched \o
                              [i \in DOMAIN proposed |->
                                  [round |-> cli.round + 1, call |-> proposed[i]]]]
    /\ UNCHANGED <<call, pool, backend_vars>>

\* One of the gathered call_tool coroutines comes back, in any order.
cli_result(i, outcome) ==
    /\ cli.pc = "gathering"
    /\ i \in cli.pending
    /\ LET r == call_tool(CliClients, cli.proposed[i].name, FALSE, outcome)
       IN  cli' = [cli EXCEPT
                     !.pending = cli.pending \ {i},
                     !.results[i] = r.result,
                     !.exc = IF cli.exc = "none" THEN r.raised ELSE cli.exc]
    /\ UNCHANGED <<call, pool, backend_vars>>

\* gather raises the first exception of its tasks to handle_function_calls,
\* which has no handler for it.
cli_raise ==
    /\ cli.pc = "gathering"
    /\ cli.exc # "none"
    /\ cli' = [cli EXCEPT !.pc = "raised"]
    /\ UNCHANGED <<call, pool, backend_vars>>

\* gather returns: the response parts are built and sent to the model.
cli_send(reply) ==
    /\ cli.pc = "gathering"
    /\ cli.pending = {}
    /\ cli.exc = "none"
    /\ MayReply(cli.round, reply)
    /\ cli' = [cli EXCEPT
                 !.pc = IF reply.kind = "error" THEN "raised" ELSE "loop",
                 !.exc = IF reply.kind = "error" THEN "ModelError" ELSE "none",
                 !.response = reply,
                 !.chat = Append(cli.chat,
                                 [i \in DOMAIN cli.proposed |->
                                     [name |-> cli.proposed[i].name,
                                      payload |-> tool_payload(cli.results[i])]])]
    /\ UNCHANGED <<call, pool, backend_vars>>

InitCli ==
    /\ call = IdleCall
    /\ pool = IdlePool
    /\ IdleBackend
    /\ cli \in {NewCli(r) : r \in FinalResponses \cup CallResponses}

NextCli ==
    \/ cli_dispatch
    \/ \E i \in DOMAIN cli.proposed, outcome \in Outcomes : cli_result(i, outcome)
    \/ cli_raise
    \/ \E reply \in Replies : cli_send(reply)

SpecCli == InitCli /\ [][NextCli]_vars

----------------------------------------------------------------------------
(* reset_session, _session_gc_loop, and Specification SpecRegistry: the
   session registry under the handlers and the sweep while time passes.
   Times are minutes since the process started. *)

\* SESSION_TTL = timedelta(minutes=30)
SESSION_TTL == 30

\* await asyncio.sleep(60): a sweep comes no sooner than a minute after the
\* one before it.
GC_SLEEP == 1

\* The clock is read every TickMinutes, up to MaxClock.
TickMinutes == 10
MaxClock == 40

\* Most resets of one session, and most messages posted.
MaxResets == 1
MaxMsgs == 2

RegistryIds == {"s1", "s2"}

\* The event reset_session puts: _event("status", level="info", ...).
ResetEvent == StatusEvent("info", 0)

\* reset_session: 404 for an id that is not registered; otherwise a new chat,
\* the activity stamp, one status event.
reset_session_keep_chat(sid) ==
    /\ IF sid \notin SESSIONS
       THEN /\ http' = Http("reset_session", 404, 0)
            /\ UNCHANGED objects
       ELSE /\ objects' = [objects EXCEPT ![sid] =
                              queue_put([@ EXCEPT !.last_active = gc.now], <<ResetEvent>>)]
            /\ http' = Http("reset_session", 200, 0)
    /\ UNCHANGED <<call, pool, SESSIONS, workers, streams, cli, gc>>

reset_session(sid) ==
    /\ IF sid \notin SESSIONS
       THEN /\ http' = Http("reset_session", 404, 0)
            /\ UNCHANGED objects
       ELSE /\ objects' = [objects EXCEPT ![sid] =
                              queue_put([@ EXCEPT !.chat = start_chat,
                                                  !.last_active = gc.now],
                                        <<ResetEvent>>)]
            /\ http' = Http("reset_session", 200, 0)
    /\ UNCHANGED <<call, pool, SESSIONS, workers, streams, cli, gc>>

\* expired = [sid for sid, s in SESSIONS.items() if now - s.last_active > SESSION_TTL]
expired_at_ttl(sessions, objs, now) ==
    {sid \in sessions : now - objs[sid].last_active >= SESSION_TTL}

expired(sessions, objs, now) ==
    {sid \in sessions : now - objs[sid].last_active > SESSION_TTL}

\* One turn of _session_gc_loop after its sleep: the expired sessions are
\* popped from the registry.  The Session objects stay with whoever holds them.
session_gc_loop ==
    /\ gc.now - gc.swept >= GC_SLEEP
    /\ SESSIONS' = SESSIONS \ expired(SESSIONS, objects, gc.now)
    /\ gc' = [gc EXCEPT !.swept = gc.now]
    /\ UNCHANGED <<call, pool, objects, workers, streams, http, cli>>

\* Time passes: what datetime.utcnow() returns grows.
utcnow_advances ==
    /\ gc.now + TickMinutes <= MaxClock
    /\ gc' = [gc EXCEPT !.now = gc.now + TickMinutes]
    /\ UNCHANGED <<call, pool, SESSIONS, objects, workers, streams, http, cli>>

ResetsOf(sid) ==
    Cardinality({i \in 1..Len(objects[sid].queue) : objects[sid].queue[i] = ResetEvent})

NextRegistry ==
    \/ \E sid \in RegistryIds : create_session(sid, "ok", Catalog)
    \/ \E sid \in RegistryIds :
          /\ sid \in SESSIONS => ResetsOf(sid) < MaxResets
          /\ reset_session(sid)
    \/ \E sid \in RegistryIds :
          /\ Len(workers) < MaxMsgs
          /\ post_message(sid, "hi")
    \/ \E m \in 1..Len(workers), reply \in FinalResponses : worker_start(m, reply)
    \/ session_gc_loop
    \/ utcnow_advances

SpecRegistry == Init /\ [][NextRegistry]_vars

----------------------------------------------------------------------------
(* MultiMCPClient.ping_all and list_tools, and Specification SpecDiscovery:
   one `async with MultiMCPClient(servers) as multi` whose block calls
   ping_all, list_tools, or list_tools and then call_tool (_run_cli,
   create_session), and create_session's registration after it *)

\* Server names of a configuration file: load_servers_from_yaml takes any
\* string for a name.
ConfigNames == { <<"m">>, <<"m", ".", "x">> }

ConfigLists == {s \in SeqsUpTo(ConfigNames, MaxServers) : Len(s) >= 1}

\* What a provider answers to client.list_tools(): its tools' names, or an
\* exception.
ToolT == <<"t">>
ToolXT == <<"x", ".", "t">>

Offers ==
    { [ok |-> TRUE,  tools |-> << ToolT >>],
      [ok |-> TRUE,  tools |-> << ToolT, ToolXT >>],
      [ok |-> FALSE, tools |-> << >>] }

\* The keys of a dict in the order of their first insertion.
RECURSIVE insertion_order(_)
insertion_order(names) ==
    IF names = <<>> THEN <<>>
    ELSE LET before == insertion_order(SubSeq(names, 1, Len(names) - 1))
             last   == names[Len(names)]
         IN  IF \E i \in 1..Len(before) : before[i] = last THEN before
             ELSE Append(before, last)

\* self._clients.items() of pool p: <<name, connection>> in insertion order.
clients_items(p) ==
    LET names == SelectSeq(insertion_order(p.servers),
                           LAMBDA n : n \in dict_keys(p.clients))
    IN  [i \in 1..Len(names) |->
            <<names[i], CHOOSE k \in 1..Len(p.servers) : <<names[i], k>> \in p.clients>>]

\* ping_all: one ping per client; an exception of a ping is caught and
\* written down as False.  alive[k]: connection k answers the ping.
ping_all_unguarded(items, alive) ==
    IF \E i \in 1..Len(items) : ~alive[items[i][2]]
    THEN [raised |-> "PingError", results |-> {}]
    ELSE [raised |-> "none",
          results |-> {<<items[i][1], TRUE>> : i \in 1..Len(items)}]

ping_all(items, alive) ==
    [raised |-> "none",
     results |-> {<<items[i][1], alive[items[i][2]]>> : i \in 1..Len(items)}]

\* fetch_one(server_name, client): a ToolRecord per tool the provider lists.
fetch_one(server_name, offer) ==
    [j \in 1..Len(offer.tools) |-> ToolRecord(server_name, offer.tools[j])]

RECURSIVE extend_groups(_, _, _)
\* for group in await asyncio.gather(*tasks): catalog.extend(group)
extend_groups(items, offers, n) ==
    IF n = 0 THEN <<>>
    ELSE extend_groups(items, offers, n - 1)
            \o fetch_one(items[n][1], offers[items[n][2]])

\* The providers whose discovery succeeded, for a gather that would collect
\* exceptions instead of raising.
list_tools_partial(items, offers) ==
    LET good == SelectSeq(items, LAMBDA it : offers[it[2]].ok)
    IN  [raised |-> "none", catalog |-> extend_groups(good, offers, Len(good))]

\* list_tools: asyncio.gather without return_exceptions raises the first
\* exception of a fetch_one; otherwise the groups are joined in the order
\* of the clients.
list_tools(items, offers) ==
    IF \E i \in 1..Len(items) : ~offers[items[i][2]].ok
    THEN [raised |-> "DiscoveryError", catalog |-> <<>>]
    ELSE [raised |-> "none", catalog |-> extend_groups(items, offers, Len(items))]

InitDiscovery ==
    /\ pool \in {NewPool(s) : s \in ConfigLists}
    /\ call = IdleCall
    /\ IdleBackend
    /\ IdleCli

\* The with-block is `await multi.ping_all()`.
PingAll ==
    /\ pool.pc = "body"
    /\ \E alive \in [1..Len(pool.servers) -> BOOLEAN] :
          LET items == clients_items(pool)
              r     == ping_all(items, alive)
          IN  /\ call' = [pc |-> "pinged", items |-> items, env |-> alive, ret |-> r]
              /\ pool' = [pool EXCEPT !.pc = "exiting", !.body_exc = r.raised]
    /\ UNCHANGED <<backend_vars, cli>>

\* The with-block is `catalog = await multi.list_tools()`.
ListTools ==
    /\ pool.pc = "body"
    /\ \E offers \in [1..Len(pool.servers) -> Offers] :
          LET items == clients_items(pool)
              r     == list_tools(items, offers)
          IN  /\ call' = [pc |-> "listed", items |-> items, env |-> offers, ret |-> r]
              /\ pool' = [pool EXCEPT !.pc = "exiting", !.body_exc = r.raised]
    /\ UNCHANGED <<backend_vars, cli>>

\* The with-block is `tools = await multi.list_tools()` and then
\* `await multi.call_tool(fqn, payload)` with the fqn of a listed record.
ListToolsAndCall ==
    /\ pool.pc = "body"
    /\ \E offers \in [1..Len(pool.servers) -> Offers] :
          LET items == clients_items(pool)
              r     == list_tools(items, offers)
          IN  /\ r.raised = "none"
              /\ \E k \in DOMAIN r.catalog, outcome \in {o \in Outcomes : o.data # None} :
                    LET sent == call_tool(dict_keys(pool.clients), r.catalog[k].fqn,
                                          TRUE, outcome)
                    IN  /\ call' = [pc |-> "routed", items |-> items, env |-> offers,
                                    ret |-> r, record |-> r.catalog[k], sent |-> sent]
                        /\ pool' = [pool EXCEPT !.pc = "exiting",
                                                !.body_exc = sent.raised]
    /\ UNCHANGED <<backend_vars, cli>>

\* The rest of create_session after the with-statement.
CreateSessionReturns ==
    /\ pool.pc \in {"closed", "failed"}
    /\ pool.caller = "ConnectError" \/ call.pc = "listed"
    /\ http.op = "none"
    /\ create_session("s1", pool.caller,
                      IF call.pc = "listed" THEN call.ret.catalog ELSE <<>>)

NextDiscovery ==
    \/ AenterConnect
    \/ AenterFail
    \/ PingAll
    \/ ListTools
    \/ ListToolsAndCall
    \/ AexitRelease
    \/ AexitFinish
    \/ CreateSessionReturns

SpecDiscovery == InitDiscovery /\ [][NextDiscovery]_vars

----------------------------------------------------------------------------
(* Specification SpecSerial: several messages posted to one session, each
   with its own _worker task, against a model and providers that do a few
   things only *)

SerialReplies == FinalResponses \cup {Response(<<CallAdd>>, <<>>, "")}

SerialOutcomes == {o \in Outcomes : o.kind = "ok" /\ o.data # None}

NextSerial ==
    \/ \E sid \in SessionIds : create_session(sid, "ok", Catalog)
    \/ \E sid \in SessionIds :
          /\ Len(workers) < MaxMsgs
          /\ post_message(sid, "hi")
    \/ \E m \in DOMAIN workers, reply \in SerialReplies : worker_start(m, reply)
    \/ \E m \in DOMAIN workers : worker_connect(m, TRUE)
    \/ \E m \in DOMAIN workers, outcome \in SerialOutcomes : worker_result(m, outcome)
    \/ \E m \in DOMAIN workers : worker_release(m, TRUE, TRUE)
    \/ \E m \in DOMAIN workers, reply \in FinalResponses : worker_exit(m, reply)

SpecSerial == Init /\ [][NextSerial]_vars

----------------------------------------------------------------------------
(* Specification SpecDetach: observers that leave while the loop of a message
   is in flight.  The event loop runs every task that can run, and the model
   and the providers answer or fail within their timeouts: a _worker that
   can take a step takes one. *)

InFlight(sid) ==
    \E m \in DOMAIN workers : workers[m].sid = sid /\ workers[m].pc # "done"

\* A call comes back with data or the transport fails.
DetachOutcomes == {o \in Outcomes : o.data # None \/ o.kind = "transport"}

WorkerSteps ==
    \/ \E m \in DOMAIN workers, reply \in FewReplies : worker_start(m, reply)
    \/ \E m \in DOMAIN workers : worker_connect(m, TRUE)
    \/ \E m \in DOMAIN workers, outcome \in DetachOutcomes : worker_result(m, outcome)
    \/ \E m \in DOMAIN workers : worker_release(m, TRUE, TRUE)
    \/ \E m \in DOMAIN workers, reply \in FewReplies : worker_exit(m, reply)

NextDetach ==
    \/ \E sid \in SessionIds : create_session(sid, "ok", Catalog)
    \/ \E sid \in SessionIds : workers = <<>> /\ post_message(sid, "hi")
    \/ WorkerSteps
    \/ \E sid \in SessionIds : stream_events(sid)
    \/ \E o \in DOMAIN streams : stream_hello(o)
    \/ \E o \in DOMAIN streams : stream_next(o)
    \/ \E o \in DOMAIN streams : InFlight(streams[o].sid) /\ stream_detach(o)

SpecDetach == Init /\ [][NextDetach]_vars /\ WF_vars(WorkerSteps)

----------------------------------------------------------------------------
(* Claims about call_tool (SpecCall) *)

NoSeparator(fqn) == \A i \in 1..Len(fqn) : fqn[i] # "."
EmptyServer(fqn) == Len(fqn) >= 1 /\ fqn[1] = "."
EmptyTool(fqn)   == /\ Len(fqn) >= 1
                    /\ fqn[Len(fqn)] = "."
                    /\ \A i \in 1..(Len(fqn) - 1) : fqn[i] # "."
UnknownServer(fqn, clients) ==
    \E i \in 1..Len(fqn) :
        /\ fqn[i] = "."
        /\ \A j \in 1..(i - 1) : fqn[j] # "."
        /\ SubSeq(fqn, 1, i - 1) \notin clients

Misaddressed(fqn, clients) ==
    NoSeparator(fqn) \/ EmptyServer(fqn) \/ EmptyTool(fqn) \/ UnknownServer(fqn, clients)

\* C3: call_tool given an fqn with no "." separator, an empty server part,
\* an empty tool part or a server prefix that is no connected provider
\* raises ValueError and makes no network call on any provider client.
C3_MisaddressedRaisesWithoutNetwork ==
    (call.pc = "returned" /\ Misaddressed(call.fqn, call.clients))
        => (call.ret.raised = "ValueError" /\ call.ret.net = <<>>)

\* C3 witness: each of the four shapes was refused; here the empty tool part
\* after a connected server.
C3_Witness ==
    /\ call.pc = "returned"
    /\ call.fqn = <<"m", ".">>
    /\ call.clients = {<<"m">>}
    /\ call.ret.raised = "ValueError"
    /\ call.ret.net = <<>>

ProviderReportedFailure ==
    /\ call.pc = "returned"
    /\ ~Misaddressed(call.fqn, call.clients)
    /\ call.outcome.kind = "tool_error"

\* C8 as stated: with raise_on_error=False a provider-reported failure comes
\* back as a result with is_error and a readable content_text; with
\* raise_on_error=True it is raised and no result is returned.
C8_Original ==
    ProviderReportedFailure =>
        IF call.raise_on_error
        THEN call.ret.raised = "ToolError"
        ELSE /\ call.ret.raised = "none"
             /\ call.ret.result.is_error
             /\ call.ret.result.content_text \notin {None, ""}

\* C8 amended: under either value of raise_on_error a provider-reported
\* failure is never raised by call_tool; it comes back as a result with
\* is_error true and no data, whose content_text is the provider's message
\* whenever the provider gave one.
C8_FailureNormalizedUnderBothPolicies ==
    ProviderReportedFailure =>
        /\ call.ret.raised = "none"
        /\ call.ret.result.is_error
        /\ call.ret.result.data = None
        /\ (call.outcome.text # "" => call.ret.result.content_text = call.outcome.text)

\* C8 witness: divide by zero under raise_on_error=True came back as a result.
C8_Witness ==
    /\ ProviderReportedFailure
    /\ call.raise_on_error
    /\ call.ret.raised = "none"
    /\ call.ret.result.is_error
    /\ call.ret.result.content_text = "Division by zero is not allowed."

----------------------------------------------------------------------------
(* Claims about the connection scope (SpecScope) *)

ScopeLeft == pool.pc \in {"closed", "failed"}

RECURSIVE CountDown(_)
CountDown(n) == IF n = 0 THEN <<>> ELSE <<n>> \o CountDown(n - 1)

\* C4 as stated: when a connection fails to establish during scope entry,
\* the connections opened before it are released before the caller sees the
\* error: none remains open.
C4_NothingOpenAfterFailedEntry ==
    (pool.pc = "failed" /\ ~pool.entered) => pool.open = {}

\* C5: once a successfully entered scope has been left, normally or by an
\* exception of the body, every opened connection has been released exactly
\* once, newest first, whether or not a release failed on the way.
C5_ReleasedOnceInReverse ==
    (ScopeLeft /\ pool.entered) => pool.released = CountDown(Len(pool.servers))

\* C5 witness: a scope over several servers left by an exception of the
\* body, with a release that failed, and all of them released newest first.
C5_Witness ==
    /\ ScopeLeft /\ pool.entered
    /\ Len(pool.servers) >= 2
    /\ pool.body_exc = "BodyError"
    /\ pool.pending = "ReleaseError"
    /\ pool.released = CountDown(Len(pool.servers))

\* C6 as stated: when the body failed and a release failed too, the caller
\* observes the body's error, not the release error.
C6_PrimaryErrorNotMasked ==
    (ScopeLeft /\ pool.entered /\ pool.body_exc # "none") => pool.caller = pool.body_exc

----------------------------------------------------------------------------
(* Claims about the agent loop of the backend (Spec) *)

\* The types of the events put on its session's queue for message m, in order.
EventTypesOf(m) ==
    LET q  == objects[workers[m].sid].queue
        of == SelectSeq(q, LAMBDA e : e.msg = m)
    IN  [i \in DOMAIN of |-> of[i].type]

HasType(types, t) == \E i \in DOMAIN types : types[i] = t

\* The loop of m is over and made one round of one call, which succeeded.
OneRoundOneSuccess(m) ==
    /\ workers[m].pc = "done"
    /\ workers[m].round = 1
    /\ workers[m].planned = 1
    /\ Len(workers[m].dispatched) = 1
    /\ workers[m].dispatched[1].kind = "ok"

\* C1: for an accepted message whose loop makes exactly one round of exactly
\* one successful tool call, the events put on the queue for it come in the
\* order message.user, tool_call.started, tool_call.result and, when the loop
\* ends with an answer, message.model.final, with nothing in between.
C1_SingleRoundEventOrder ==
    \A m \in DOMAIN workers :
        OneRoundOneSuccess(m) =>
            LET t == EventTypesOf(m)
            IN  /\ Len(t) >= 3
                /\ SubSeq(t, 1, 3) = <<"message.user", "tool_call.started", "tool_call.result">>
                /\ HasType(t, "message.model.final") =>
                      t = <<"message.user", "tool_call.started",
                            "tool_call.result", "message.model.final">>

\* C1 witness: such a loop ended with its answer.
C1_Witness ==
    \E m \in DOMAIN workers :
        /\ OneRoundOneSuccess(m)
        /\ EventTypesOf(m) = <<"message.user", "tool_call.started",
                               "tool_call.result", "message.model.final">>

FailureKinds == {"tool_error", "transport"}

ErrorEventFor(m, id) ==
    \E i \in DOMAIN objects[workers[m].sid].queue :
        LET e == objects[workers[m].sid].queue[i]
        IN  e.type = "tool_call.error" /\ e.msg = m /\ e.id = id

\* C7 as stated: a tool invocation that fails, whether the provider reports
\* the failure or the transport fails, yields a tool_call.error event for
\* that call and is never raised into the loop (which would end it).
C7_ToolFailureNeverAbortsLoop ==
    \A m \in DOMAIN workers :
        /\ \A k \in DOMAIN workers[m].dispatched :
              workers[m].dispatched[k].kind \in FailureKinds
                  => ErrorEventFor(m, workers[m].dispatched[k].id)
        /\ workers[m].pool.body_exc \notin {"ToolError", "TransportError"}

\* C9: the step that accepts a message puts message.user on the session's
\* queue and answers 202 while the message's task is created but has not
\* run: it has made no model call and put no event of its own on the queue.
C9_AcceptedBeforeLoopRuns ==
    [][ Len(workers') = Len(workers) + 1 =>
          LET m   == Len(workers')
              sid == workers'[m].sid
          IN  /\ http' = Http("post_message", 202, m)
              /\ sid \in SESSIONS
              /\ objects'[sid].queue =
                    Append(objects[sid].queue, Event("message.user", m, NoId, <<>>))
              /\ objects'[sid].chat = objects[sid].chat
              /\ workers'[m].pc = "created"
              /\ workers'[m].sends = 0 ]_vars

\* C9 witness: 202 has been answered for a message whose task has not started.
C9_Witness ==
    /\ http = Http("post_message", 202, 1)
    /\ workers[1].pc = "created"
    /\ workers[1].sends = 0
    /\ EventTypesOf(1) = <<"message.user">>

SameMapping(a, b) == {a[i] : i \in DOMAIN a} = {b[i] : i \in DOMAIN b}

\* The backend half of C2: the calls of a round of _worker hold no two with
\* the same name and the same argument mapping.
BackendRoundDeduplicated ==
    \A m \in DOMAIN workers :
        \A j, k \in DOMAIN workers[m].proposed :
            (j < k /\ workers[m].proposed[j].name = workers[m].proposed[k].name)
                => ~SameMapping(workers[m].proposed[j].args, workers[m].proposed[k].args)

----------------------------------------------------------------------------
(* Claims about the CLI loop (SpecCli) *)

\* C2 as stated: in a round, two proposed calls with the same name whose
\* argument mappings are equal but list their keys in a different order
\* lead to one call_tool dispatch, not two.
C2_EquivalentCallsDispatchedOnce ==
    \A j, k \in DOMAIN cli.dispatched :
        LET a == cli.dispatched[j]
            b == cli.dispatched[k]
        IN  (j < k /\ a.round = b.round /\ a.call.name = b.call.name
                   /\ a.call.args # b.call.args)
                => ~SameMapping(a.call.args, b.call.args)

----------------------------------------------------------------------------
(* Claims about the event stream (SpecStream) *)

\* The greeting and then the n events that followed position since of the queue.
ExpectedStream(o, n) ==
    <<Greeting>> \o
    [i \in 1..n |-> [pos   |-> streams[o].since + i,
                     event |-> objects[streams[o].sid].queue[streams[o].since + i]]]

\* C10 as stated: an observer gets one greeting and then every event that
\* was still queued when it attached or was produced afterwards, in order,
\* none skipped, duplicated or reordered.
C10_ObserverReceivesEveryEvent ==
    \A o \in DOMAIN streams :
        /\ streams[o].pc = "streaming" =>
              streams[o].received =
                  ExpectedStream(o, objects[streams[o].sid].head - streams[o].since)
        /\ (streams[o].pc = "detached" /\ streams[o].received # <<>>) =>
              streams[o].received = ExpectedStream(o, Len(streams[o].received) - 1)

\* C10 amended: an observer gets first exactly one greeting and then, in
\* production order and none of them twice, events of its session that were
\* still queued when it attached or were produced afterwards; an observer
\* that shares the session with no other observer while it is attached gets
\* every one of them, none skipped.
C10_ObserverReceivesInOrder ==
    \A o \in DOMAIN streams :
        LET r == streams[o].received
            q == objects[streams[o].sid]
        IN  /\ streams[o].pc = "hello" => r = <<>>
            /\ streams[o].pc = "streaming" => r # <<>>
            /\ r # <<>> => r[1] = Greeting
            /\ \A i \in 2..Len(r) :
                  /\ r[i].pos > streams[o].since
                  /\ r[i].pos <= q.head
                  /\ r[i].event = q.queue[r[i].pos]
                  /\ i > 2 => r[i - 1].pos < r[i].pos
            /\ (streams[o].alone /\ streams[o].pc = "streaming") =>
                  r = ExpectedStream(o, q.head - streams[o].since)
            /\ (streams[o].alone /\ streams[o].pc = "detached" /\ r # <<>>) =>
                  r = ExpectedStream(o, Len(r) - 1)

\* C10 witness: an observer that attached after an earlier one had left, alone
\* on its session, has had its greeting and two events.
C10_Witness ==
    \E o \in DOMAIN streams :
        /\ streams[o].alone
        /\ streams[o].pc = "streaming"
        /\ streams[o].since >= 1
        /\ Len(streams[o].received) >= 3
        /\ streams[o].received = ExpectedStream(o, Len(streams[o].received) - 1)

----------------------------------------------------------------------------
(* Claims about the session registry (SpecRegistry) *)

ResetStep ==
    /\ http'.op = "reset_session"
    /\ gc' = gc /\ workers' = workers /\ SESSIONS' = SESSIONS

\* C12: resetting a registered session gives it a fresh conversation, keeps
\* its tool metadata and the events already queued, and appends exactly one
\* status event; resetting an unknown id answers 404 and changes nothing.
C12_ResetFrame ==
    [][ResetStep =>
         IF http'.status = 404
         THEN objects' = objects
         ELSE \E sid \in SESSIONS :
                 /\ \A other \in DOMAIN objects \ {sid} : objects'[other] = objects[other]
                 /\ objects'[sid].chat = start_chat
                 /\ objects'[sid].tool_meta = objects[sid].tool_meta
                 /\ objects'[sid].head = objects[sid].head
                 /\ objects'[sid].queue = Append(objects[sid].queue, ResetEvent)]_vars

\* A session that had a conversation has been reset: the reset event is the
\* last of its queue, after the events of the message.
C12_Witness ==
    /\ http = Http("reset_session", 200, 0)
    /\ \E sid \in SESSIONS :
          LET q == objects[sid].queue
          IN  /\ Len(q) >= 3
              /\ q[Len(q)] = ResetEvent
              /\ q[Len(q) - 1].type = "message.model.final"
              /\ objects[sid].chat = start_chat
----------------------------------------------------------------------------
(* Claims about discovery (SpecDiscovery) *)

\* list_tools returned a catalog.
Listed == call.pc = "listed" /\ call.ret.raised = "none"

\* C13: every record of the catalog list_tools returns has fqn = server + "."
\* + local name, and no two records of the catalog have the same fqn.
C13_FqnsNamespacedAndUnique ==
    Listed =>
        LET catalog == call.ret.catalog
        IN  /\ \A i \in 1..Len(catalog) :
                  catalog[i].fqn = catalog[i].server \o <<".">> \o catalog[i].name
            /\ \A i, j \in 1..Len(catalog) :
                  catalog[i].fqn = catalog[j].fqn => i = j

\* C17: ping_all does not raise, and its result holds, for every connected
\* provider, whether that provider's own ping succeeded.
C17_PingAllReportsEachProvider ==
    call.pc = "pinged" =>
        /\ call.ret.raised = "none"
        /\ dict_keys(call.ret.results) = {call.items[i][1] : i \in 1..Len(call.items)}
        /\ \A i \in 1..Len(call.items) :
              <<call.items[i][1], call.env[call.items[i][2]]>> \in call.ret.results

\* Two providers were pinged; one failed and the other succeeded.
C17_Witness ==
    /\ call.pc = "pinged"
    /\ \E a, b \in ConfigNames : {<<a, TRUE>>, <<b, FALSE>>} \subseteq call.ret.results

\* A provider whose client.list_tools() raised.
DiscoveryFailed ==
    call.pc = "listed" /\ \E i \in 1..Len(call.items) : ~call.env[call.items[i][2]].ok

\* C18: list_tools returns the whole catalog or nothing: if discovery fails
\* for any provider it raises that error, and create_session then registers
\* no session; if it returns, every tool of every provider is in the catalog.
C18_CatalogWholeOrNothing ==
    /\ DiscoveryFailed =>
          /\ call.ret.raised = "DiscoveryError"
          /\ call.ret.catalog = <<>>
          /\ SESSIONS = {} /\ objects = <<>>
          /\ http.op = "create_session" => http.status = 500
    /\ Listed =>
          \A i \in 1..Len(call.items) :
             \A j \in 1..Len(call.env[call.items[i][2]].tools) :
                \E k \in 1..Len(call.ret.catalog) :
                   call.ret.catalog[k] =
                      ToolRecord(call.items[i][1], call.env[call.items[i][2]].tools[j])

\* Discovery succeeded for one provider and failed for another, and
\* create_session has returned.
C18_Witness ==
    /\ DiscoveryFailed
    /\ \E i \in 1..Len(call.items) : call.env[call.items[i][2]].ok
    /\ http = Http("create_session", 500, 0)
----------------------------------------------------------------------------
(* Further claims about the agent loop of the backend (Spec) *)

\* The events put on its session's queue for message m, in order.
EventsOf(m) == SelectSeq(objects[workers[m].sid].queue, LAMBDA e : e.msg = m)

\* C14 as stated: the calls of a round are all issued before the loop waits
\* for any of them, so that no call waits for a sibling to come back.
C14_AllCallsIssuedBeforeWaiting ==
    \A m \in DOMAIN workers :
        workers[m].pc = "calling" => workers[m].i = Len(workers[m].proposed)

\* C16: when a model call fails or the pool fails to connect, the loop stops
\* at once: exactly one status event reporting the error is appended for the
\* message, it is the last event of the message, and the message gets no
\* message.model.final.
C16_ModelOrConnectFailureEndsLoop ==
    \A m \in DOMAIN workers :
        workers[m].exc \in {"ModelError", "ConnectError"} =>
            LET of == EventsOf(m)
            IN  /\ workers[m].pc = "done"
                /\ of[Len(of)] = StatusError(m)
                /\ Cardinality({i \in DOMAIN of : of[i].type = "status"}) = 1
                /\ ~HasType(EventTypesOf(m), "message.model.final")

\* The model call that follows a finished tool round failed.
C16_Witness ==
    \E m \in DOMAIN workers :
        /\ workers[m].exc = "ModelError"
        /\ workers[m].round = 1
        /\ EventTypesOf(m) = <<"message.user", "tool_call.started",
                               "tool_call.result", "status">>

\* Event e reports the outcome of the call that event s started.
OutcomeOf(s, e) ==
    /\ e.type \in {"tool_call.result", "tool_call.error"}
    /\ e.id = s.id /\ e.fqn = s.fqn /\ e.tool = s.tool /\ e.server = s.server

\* C19 as stated: the started events of a message come in the order of the
\* calls, and once the loop is over every started event is followed, before
\* the last event of the message, by exactly one result or error event with
\* the same callId, tool and server.
C19_StartedThenOneOutcome ==
    \A m \in DOMAIN workers :
        LET of == EventsOf(m)
            st == SelectSeq(of, LAMBDA e : e.type = "tool_call.started")
        IN  /\ \A j, k \in DOMAIN st :
                  j < k => \/ st[j].id[1] < st[k].id[1]
                           \/ st[j].id[1] = st[k].id[1] /\ st[j].id[2] < st[k].id[2]
            /\ workers[m].pc = "done" =>
                  \A i \in DOMAIN of :
                      of[i].type = "tool_call.started" =>
                          Cardinality({j \in DOMAIN of :
                                          /\ i < j /\ j < Len(of)
                                          /\ OutcomeOf(of[i], of[j])}) = 1

\* The contents with tool responses sent to the model for message m, in order.
ToolResponsesOf(m) ==
    SelectSeq(objects[workers[m].sid].chat, LAMBDA c : c.msg = m /\ c.parts # <<>>)

\* The number of payloads in a sequence of contents.
RECURSIVE PayloadsIn(_)
PayloadsIn(sent) ==
    IF sent = <<>> THEN 0 ELSE Len(Head(sent).parts) + PayloadsIn(Tail(sent))

\* What the provider did to call i of round r of message m.
OutcomeAt(m, r, i) ==
    LET d == workers[m].dispatched
    IN  d[CHOOSE k \in DOMAIN d : d[k].id = <<r, i>>].outcome

----------------------------------------------------------------------------
(* Further claims about the CLI loop (SpecCli) *)

\* C15 as stated: the extractor reads the direct list of function calls
\* first and scans the content parts only when that list is absent or
\* empty, so the calls of a round are each logical call once.
C15_PartsReadOnlyWithoutDirectList ==
    cli.pc = "gathering" =>
        cli.proposed = IF cli.response.function_calls # <<>>
                       THEN cli.response.function_calls
                       ELSE cli.response.parts
----------------------------------------------------------------------------
(* Claims about the messages of one session (SpecSerial) *)

\* C21 as stated: the loop of a later message of a session makes no model
\* call on the session's chat until the loop of every earlier message of
\* that session is over.
C21_MessagesProcessedOneAtATime ==
    \A m1, m2 \in DOMAIN workers :
        (m1 < m2 /\ workers[m1].sid = workers[m2].sid /\ workers[m2].sends >= 1)
            => workers[m1].pc = "done"
----------------------------------------------------------------------------
(* Claims about the rounds and the connections of a loop (Spec) *)

\* C22 as stated: the loop bounds its rounds itself: against a model that
\* goes on proposing calls (here for MaxRounds rounds) it stops, with a
\* status event for the exceeded limit, before it has begun every round the
\* model asks for.
C22_LoopStopsAtRoundLimit ==
    \A m \in DOMAIN workers : workers[m].round < MaxRounds
\* The `async with MultiMCPClient(servers)` statements the loop of m has
\* entered: each round constructs a pool of its own and connects it.
ConnectCycles(m) ==
    IF workers[m].pc = "connecting" /\ workers[m].pool.pc = "new"
    THEN workers[m].round - 1
    ELSE workers[m].round

\* C23 as stated: the loop of a message that calls tools makes exactly one
\* connect/disconnect cycle of the provider pool, however many rounds it
\* takes, and no connection is open once it is over.
C23_OneConnectCyclePerMessage ==
    \A m \in DOMAIN workers :
        /\ workers[m].round >= 1 => ConnectCycles(m) <= 1
        /\ (workers[m].pc = "done" /\ workers[m].round >= 1) =>
              /\ ConnectCycles(m) = 1
              /\ workers[m].pool.open = {}
----------------------------------------------------------------------------
(* Claims about observers that leave (SpecDetach) *)

\* A step in which an attached observer detaches.
DetachStep ==
    \E o \in DOMAIN streams : Attached(o) /\ streams'[o].pc = "detached"

\* Queue q2 is queue q1 with events appended.
Extends(q2, q1) == Len(q2) >= Len(q1) /\ SubSeq(q2, 1, Len(q1)) = q1

\* An event leaves the queue of a session only into the hands of an observer
\* attached to it, the oldest event first; the queue otherwise only grows at
\* its end.
StaysBuffered ==
    \A sid \in DOMAIN objects :
        /\ Extends(objects'[sid].queue, objects[sid].queue)
        /\ objects'[sid].head # objects[sid].head =>
              /\ objects'[sid].head = objects[sid].head + 1
              /\ \E o \in DOMAIN streams :
                    /\ streams[o].sid = sid /\ Attached(o)
                    /\ streams'[o].received =
                          Append(streams[o].received,
                                 [pos   |-> objects[sid].head + 1,
                                  event |-> objects[sid].queue[objects[sid].head + 1]])

\* C24: an observer that detaches while a loop is in flight does not cancel
\* it: the detach changes neither the loop nor the queue, the loop goes on to
\* its terminal event, and the events stay on the queue, in order, until an
\* attached observer takes them.
C24_DetachLeavesLoopRunning ==
    /\ [][DetachStep => workers' = workers /\ objects' = objects]_vars
    /\ [][StaysBuffered]_vars
    /\ (\E o \in DOMAIN streams : streams[o].pc = "detached")
          ~> (\A m \in DOMAIN workers : workers[m].pc = "done")

\* The only observer left while the loop was in flight; the loop is over and
\* its events from the detach on, the terminal event last, are on the queue.
C24_Witness ==
    /\ Len(streams) = 1
    /\ streams[1].pc = "detached"
    /\ workers # <<>> /\ workers[1].pc = "done"
    /\ LET s == objects[streams[1].sid]
       IN  /\ s.head < Len(s.queue)
           /\ s.queue[Len(s.queue)].type \in {"message.model.final", "status"}
----------------------------------------------------------------------------
(* Further claims about discovery (SpecDiscovery) *)

\* C25 as stated: call_tool given the fqn of a record of the catalog invokes
\* the provider named record.server with the tool name record.name.
C25_ListedFqnRoutesBack ==
    call.pc = "routed" =>
        /\ call.sent.raised = "none"
        /\ call.sent.net = << <<call.record.server, call.record.name>> >>
----------------------------------------------------------------------------
(* Claims about the terminal event of a loop (Spec) *)

\* The places of the terminal events among the events of message m.
TerminalsOf(m) ==
    {i \in DOMAIN EventsOf(m) :
        \/ EventsOf(m)[i].type = "message.model.final"
        \/ EventsOf(m)[i].type = "status" /\ EventsOf(m)[i].level = "error"}

\* C26: the loop of an accepted message puts exactly one terminal event,
\* message.model.final or a status event of level error and never both, and
\* puts it last: none while the loop runs, one once it is over, nothing
\* after it.
C26_ExactlyOneTerminalEvent ==
    \A m \in DOMAIN workers :
        /\ workers[m].pc # "done" => TerminalsOf(m) = {}
        /\ workers[m].pc = "done" => TerminalsOf(m) = {Len(EventsOf(m))}

\* A loop of two rounds has ended with its answer.
C26_Witness ==
    \E m \in DOMAIN workers :
        /\ workers[m].pc = "done"
        /\ workers[m].round = 2
        /\ EventsOf(m)[Len(EventsOf(m))].type = "message.model.final"
        /\ Len(EventsOf(m)) >= 6
----------------------------------------------------------------------------
(* Further claims about the event stream (SpecStream) *)

\* The deliveries of the event at position p of a session's queue: the
\* observer and the place in what it received.
DeliveriesOf(sid, p) ==
    UNION { { <<o, i>> : i \in {j \in 2..Len(streams[o].received) :
                                    streams[o].received[j].pos = p} } :
            o \in {n \in DOMAIN streams : streams[n].sid = sid} }

\* C27: with several observers on one session, every event taken off the
\* queue has gone to exactly one of them, and what each observer has after
\* its greeting is in the order of the queue.
C27_EachEventToOneObserver ==
    /\ \A sid \in DOMAIN objects :
          \A p \in 1..objects[sid].head :
              /\ Cardinality(DeliveriesOf(sid, p)) = 1
              /\ \A d \in DeliveriesOf(sid, p) :
                    streams[d[1]].received[d[2]].event = objects[sid].queue[p]
    /\ \A o \in DOMAIN streams :
          \A i, j \in 2..Len(streams[o].received) :
              i < j => streams[o].received[i].pos < streams[o].received[j].pos

\* Two observers are attached to the session at the same time and each has
\* had an event the other has not.
C27_Witness ==
    \E o1, o2 \in DOMAIN streams :
        /\ o1 # o2
        /\ streams[o1].sid = streams[o2].sid
        /\ streams[o1].pc = "streaming" /\ streams[o2].pc = "streaming"
        /\ Len(streams[o1].received) >= 2 /\ Len(streams[o2].received) >= 2
        /\ streams[o1].received[2].pos < streams[o2].received[2].pos
        /\ Len(streams[o1].received) >= 3 =>
              streams[o1].received[3].pos > streams[o2].received[2].pos
====
